---- MODULE Spec2Model ----
(***************************************************************************)
(* Model of streamlit_app.py: process_text_to_csv, consolidate_csvs and    *)
(* the Process run of main.                                                *)
(*                                                                         *)
(* A Python str is a sequence of atoms.  An atom is one character (" ",    *)
(* ":", ",", the double quote, "\r", "\n") or an indivisible run of        *)
(* characters that none of the string operations of the program cut        *)
(* ("Shareholding", "100", "ordinary", ...).  A Python list is a sequence. *)
(***************************************************************************)
EXTENDS Integers, Sequences, FiniteSets, TLC

\* ------------------------------------------------------------------ bounds
MaxLines == 3
MaxTables == 3
MaxFilings == 3

\* --------------------------------------------------------- str operations
RECURSIVE LStrip(_)
LStrip(s) == IF s # <<>> /\ Head(s) = " " THEN LStrip(Tail(s)) ELSE s

RECURSIVE RStrip(_)
RStrip(s) ==
    IF s # <<>> /\ s[Len(s)] = " " THEN RStrip(SubSeq(s, 1, Len(s) - 1)) ELSE s

Strip(s) == RStrip(LStrip(s))

StartsWith(s, p) == Len(s) >= Len(p) /\ SubSeq(s, 1, Len(p)) = p

\* str.split(sep) for a one-character sep: always at least one part
RECURSIVE SplitOn(_, _)
SplitOn(s, sep) ==
    IF \E k \in 1..Len(s) : s[k] = sep
    THEN LET k == CHOOSE k \in 1..Len(s) :
                      s[k] = sep /\ \A m \in 1..(k - 1) : s[m] # sep
         IN  <<SubSeq(s, 1, k - 1)>> \o SplitOn(SubSeq(s, k + 1, Len(s)), sep)
    ELSE <<s>>

\* str.split() without argument: runs of whitespace separate, no empty parts
RECURSIVE SplitWs(_)
SplitWs(s) ==
    LET t == LStrip(s)
    IN  IF t = <<>> THEN <<>>
        ELSE IF \E k \in 1..Len(t) : t[k] = " "
        THEN LET k == CHOOSE k \in 1..Len(t) :
                          t[k] = " " /\ \A m \in 1..(k - 1) : t[m] # " "
             IN  <<SubSeq(t, 1, k - 1)>> \o SplitWs(SubSeq(t, k + 1, Len(t)))
        ELSE <<t>>

\* sep.join(parts)
RECURSIVE Join(_, _)
Join(parts, sep) ==
    IF parts = <<>> THEN <<>>
    ELSE IF Len(parts) = 1 THEN parts[1]
    ELSE parts[1] \o sep \o Join(Tail(parts), sep)

LowerAtom(a) ==
    CASE a = "ORDINARY" -> "ordinary"
      [] a = "Ordinary" -> "ordinary"
      [] a = "SHARES" -> "shares"
      [] a = "Shares" -> "shares"
      [] a = "Held" -> "held"
      [] a = "Many" -> "many"
      [] OTHER -> a

\* str.lower()
Lower(s) == [k \in 1..Len(s) |-> LowerAtom(s[k])]

TitleAtom(a) ==
    CASE LowerAtom(a) = "ordinary" -> "Ordinary"
      [] LowerAtom(a) = "shares" -> "Shares"
      [] LowerAtom(a) = "held" -> "Held"
      [] LowerAtom(a) = "many" -> "Many"
      [] OTHER -> a

\* str.title(); every word of the modelled share-class text is one atom
Title(s) == [k \in 1..Len(s) |-> TitleAtom(s[k])]

\* does s, from position k on, match \s+shares
RECURSIVE MatchWsShares(_, _, _)
MatchWsShares(s, k, seenWs) ==
    IF k > Len(s) THEN FALSE
    ELSE IF s[k] = " " THEN MatchWsShares(s, k + 1, TRUE)
    ELSE seenWs /\ s[k] = "shares"

\* re.search(r"(.*?)\s+shares", s): the match starts at the first position
\* and the lazy group stops before the first \s+shares
ReSearch(s) ==
    IF \E e \in 0..Len(s) : MatchWsShares(s, e + 1, FALSE)
    THEN LET e == CHOOSE e \in 0..Len(s) :
                      /\ MatchWsShares(s, e + 1, FALSE)
                      /\ \A m \in 0..(e - 1) : ~MatchWsShares(s, m + 1, FALSE)
         IN  [matched |-> TRUE, group1 |-> SubSeq(s, 1, e)]
    ELSE [matched |-> FALSE, group1 |-> <<>>]

\* ---------------------------------------------------------- csv module
Specials == {",", "\"", "\r", "\n"}

RECURSIVE DoubleQuotes(_)
DoubleQuotes(s) ==
    IF s = <<>> THEN <<>>
    ELSE (IF Head(s) = "\"" THEN <<"\"", "\"">> ELSE <<Head(s)>>)
         \o DoubleQuotes(Tail(s))

\* one field as csv.writer writes it (QUOTE_MINIMAL)
CsvField(cell, alone) ==
    IF (\E k \in 1..Len(cell) : cell[k] \in Specials) \/ (alone /\ cell = <<>>)
    THEN <<"\"">> \o DoubleQuotes(cell) \o <<"\"">>
    ELSE cell

\* writer.writerow(row)
CsvRow(row) ==
    Join([k \in 1..Len(row) |-> CsvField(row[k], Len(row) = 1)], <<",">>)
    \o <<"\r", "\n">>

\* writer.writerows(rows)
RECURSIVE CsvWriteRows(_)
CsvWriteRows(rows) ==
    IF rows = <<>> THEN <<>> ELSE CsvRow(Head(rows)) \o CsvWriteRows(Tail(rows))

\* the reader's state machine, one character (or the end-of-line mark "EOL")
SaveField(p) == [p EXCEPT !.fields = Append(p.fields, p.field), !.field = <<>>]

AfterNl(c) == IF c = "EOL" THEN "START_RECORD" ELSE "EAT_CRNL"

ParseChar(p, c) ==
    LET nl == c \in {"\r", "\n", "EOL"}
        startField ==
            IF nl THEN [SaveField(p) EXCEPT !.state = AfterNl(c)]
            ELSE IF c = "\"" THEN [p EXCEPT !.state = "IN_QUOTED_FIELD"]
            ELSE IF c = "," THEN [SaveField(p) EXCEPT !.state = "START_FIELD"]
            ELSE [p EXCEPT !.field = Append(p.field, c), !.state = "IN_FIELD"]
    IN  CASE p.state = "START_RECORD" ->
               IF c = "EOL" THEN p
               ELSE IF nl THEN [p EXCEPT !.state = "EAT_CRNL"]
               ELSE startField
          [] p.state = "START_FIELD" -> startField
          [] p.state = "IN_FIELD" ->
               IF nl THEN [SaveField(p) EXCEPT !.state = AfterNl(c)]
               ELSE IF c = "," THEN [SaveField(p) EXCEPT !.state = "START_FIELD"]
               ELSE [p EXCEPT !.field = Append(p.field, c)]
          [] p.state = "IN_QUOTED_FIELD" ->
               IF c = "EOL" THEN p
               ELSE IF c = "\"" THEN [p EXCEPT !.state = "QUOTE_IN_QUOTED_FIELD"]
               ELSE [p EXCEPT !.field = Append(p.field, c)]
          [] p.state = "QUOTE_IN_QUOTED_FIELD" ->
               IF c = "\"" THEN [p EXCEPT !.field = Append(p.field, c),
                                          !.state = "IN_QUOTED_FIELD"]
               ELSE IF c = "," THEN [SaveField(p) EXCEPT !.state = "START_FIELD"]
               ELSE IF nl THEN [SaveField(p) EXCEPT !.state = AfterNl(c)]
               ELSE [p EXCEPT !.field = Append(p.field, c), !.state = "IN_FIELD"]
          [] OTHER -> \* EAT_CRNL
               IF c = "EOL" THEN [p EXCEPT !.state = "START_RECORD"] ELSE p

\* a record is complete when the end of a line leaves the reader at
\* START_RECORD
EndLine(p) ==
    LET q == ParseChar(p, "EOL")
    IN  IF q.state = "START_RECORD"
        THEN [q EXCEPT !.rows = Append(q.rows, q.fields), !.fields = <<>>]
        ELSE q

\* the lines the reader pulls from the buffer: each keeps its "\n"
RECURSIVE BufferLines(_)
BufferLines(buf) ==
    IF buf = <<>> THEN <<>>
    ELSE IF \E k \in 1..Len(buf) : buf[k] = "\n"
    THEN LET k == CHOOSE k \in 1..Len(buf) :
                      buf[k] = "\n" /\ \A m \in 1..(k - 1) : buf[m] # "\n"
         IN  <<SubSeq(buf, 1, k)>> \o BufferLines(SubSeq(buf, k + 1, Len(buf)))
    ELSE <<buf>>

\* (p.state is read first so that p is evaluated at every step)
RECURSIVE ParseLine(_, _, _)
ParseLine(line, k, p) ==
    IF p.state # "" /\ k > Len(line) THEN EndLine(p)
    ELSE ParseLine(line, k + 1, ParseChar(p, line[k]))

RECURSIVE ParseLines(_, _, _)
ParseLines(ls, n, p) ==
    IF p.state # "" /\ n > Len(ls) THEN p.rows
    ELSE ParseLines(ls, n + 1, ParseLine(ls[n], 1, p))

\* list(csv.reader(buf))
CsvRead(buf) ==
    ParseLines(BufferLines(buf), 1,
               [state |-> "START_RECORD", field |-> <<>>,
                fields |-> <<>>, rows |-> <<>>])

\* io.StringIO holding value
StringIO(value) == [kind |-> "StringIO", value |-> value]

\* a Python tuple
Tuple(items) == [kind |-> "tuple", items |-> items]

\* ------------------------------------------------------ the input domain
SH(n) == <<"Shareholding", " ", n, ":">>

\* lines as the PDF text extraction may produce them
LineSet ==
    { <<>>,
      SH("1") \o <<" ", "100", " ", "ORDINARY", " ", "shares", " ", "held">>,
      SH("2") \o <<" ", "250", " ", "ordinary">>,
      <<"shares", " ", "held">>,
      <<"Shareholding", " ", "3">>,
      SH("4"),
      SH("5") \o <<" ", "many", " ", "ordinary", " ", "shares">>,
      <<"Name", ":", " ", "jane">>,
      <<" ", "Name", ":", " ", "smith", ",", " ", "\"", "jo", "\"">>,
      <<"Confirmation Statement date", ":", " ", "01/01/2020">>,
      <<"Confirmation Statement date", ":", " ", "02/02/2021">>,
      <<"Statement date", ":", " ", "03/03/2022">> }

RECURSIVE SeqsUpTo(_, _)
SeqsUpTo(S, n) ==
    IF n = 0 THEN {<<>>}
    ELSE LET shorter == SeqsUpTo(S, n - 1)
         IN  shorter \cup {Append(q, x) : q \in {r \in shorter : Len(r) = n - 1},
                                          x \in S}

\* the texts: up to MaxLines lines joined by newlines ("" is the empty text)
Texts == {Join(ls, <<"\n">>) : ls \in SeqsUpTo(LineSet, MaxLines)}

LegalNames == {<<"ACME">>, <<"Smith", ",", " ", "Sons">>}

CompanyNumbers == {<<"00123">>}

\* ------------------------------------------------- process_text_to_csv
\* the initial csv_data and its horizontal header
HeaderRow ==
    << <<>>, <<"Shareholding #">>, <<"Amount of Shares">>,
       <<"Type of Shares">>, <<"Shareholder Name">> >>

InitCsvData(legal_name, company_number) ==
    << << <<"Company Legal Name">> >>,
       << legal_name >>,
       << <<"Company Number">> >>,
       << company_number >>,
       << <<"Statement Date">> >>,
       << <<>> >>,
       << >>,
       HeaderRow >>

\* the inner while loop: the first "Name:" line at or after line j
RECURSIVE FindName(_, _)
FindName(ls, j) ==
    IF j > Len(ls) THEN <<>>
    ELSE LET next_line == Strip(ls[j])
         IN  IF StartsWith(next_line, <<"Name", ":">>)
             THEN Strip(SplitOn(next_line, ":")[2])
             ELSE FindName(ls, j + 1)

\* the "Shareholding" branch of the loop body for line i of ls (1-based)
ShareholdingRow(ls, i) ==
    LET line == Strip(ls[i])
        parts == SplitOn(line, ":")
        words == SplitWs(parts[1])
        shareholding_number == words[Len(words)]
        shareholding_details == SplitWs(Strip(parts[2]))
        amount_of_shares == shareholding_details[1]
        raw_type_of_shares == Join(Tail(shareholding_details), <<" ">>)
        type_of_shares_match == ReSearch(Lower(raw_type_of_shares))
        type_of_shares == IF type_of_shares_match.matched
                          THEN Title(type_of_shares_match.group1)
                          ELSE <<"Unknown">>
        shareholder_name == FindName(ls, i + 1)
    IN  IF Len(parts) < 2 \/ SplitWs(Strip(parts[2])) = <<>>
        THEN [raised |-> TRUE, row |-> <<>>]
        ELSE [raised |-> FALSE,
              row |-> << shareholding_number, amount_of_shares, type_of_shares,
                         IF shareholder_name # <<>> THEN shareholder_name
                         ELSE <<"PENDING">> >>]

\* the body of the loop over the lines, on the locals of the function
LineBody(loc, ls, i) ==
    LET line == Strip(ls[i])
        isDate == StartsWith(line, <<"Confirmation Statement date", ":">>)
        date == Strip(SplitOn(line, ":")[2])
        afterDate == IF isDate
                     THEN [loc EXCEPT !.statement_date = date,
                                      !.csv_data[6][1] = date]
                     ELSE loc
    IN  IF StartsWith(line, <<"Shareholding">>)
        THEN LET r == ShareholdingRow(ls, i)
             IN  IF r.raised THEN [afterDate EXCEPT !.raised = TRUE]
                 ELSE [afterDate EXCEPT
                         !.shareholder_data = Append(@, r.row)]
        ELSE afterDate

\* the loop with the row offset one too small
RECURSIVE AppendRows_Offset7(_, _, _)
AppendRows_Offset7(csv, data, idx) ==
    IF idx >= Len(data) THEN [raised |-> FALSE, csv_data |-> csv]
    ELSE LET row == data[idx + 1]
         IN  IF Len(csv) <= 7 + idx
             THEN AppendRows_Offset7(Append(csv, <<<<>>>> \o row), data, idx + 1)
             ELSE AppendRows_Offset7([csv EXCEPT ![7 + idx + 1] = @ \o row],
                                     data, idx + 1)

\* the loop that appends shareholder_data to csv_data
RECURSIVE AppendRows(_, _, _)
AppendRows(csv, data, idx) ==
    IF idx >= Len(data) THEN [raised |-> FALSE, csv_data |-> csv]
    ELSE LET row == data[idx + 1]
         IN  IF Len(csv) <= 8 + idx
             THEN AppendRows(Append(csv, <<<<>>>> \o row), data, idx + 1)
             ELSE AppendRows([csv EXCEPT ![8 + idx + 1] = @ \o row], data, idx + 1)

\* csv_buffer, statement_date as returned
ReturnValue(loc) ==
    Tuple(<<StringIO(CsvWriteRows(loc.csv_data)), loc.statement_date>>)

InitLocals(legal_name, company_number) ==
    [csv_data |-> InitCsvData(legal_name, company_number),
     statement_date |-> <<>>,
     shareholder_data |-> <<>>,
     raised |-> FALSE]

RECURSIVE RunLines(_, _, _)
RunLines(loc, ls, i) ==
    IF i > Len(ls) \/ loc.raised THEN loc
    ELSE RunLines(LineBody(loc, ls, i), ls, i + 1)

\* the whole function: [raised, value]
process_text_to_csv(text_content, legal_name, company_number) ==
    LET ls == SplitOn(text_content, "\n")
        loc == RunLines(InitLocals(legal_name, company_number), ls, 1)
        app == AppendRows(loc.csv_data, loc.shareholder_data, 0)
    IN  IF loc.raised THEN [raised |-> TRUE, value |-> Tuple(<<>>)]
        ELSE [raised |-> FALSE,
              value |-> ReturnValue([loc EXCEPT !.csv_data = app.csv_data])]

\* ----------------------------------------------------- consolidate_csvs
Max(a, b) == IF a >= b THEN a ELSE b

\* [""] * n
RECURSIVE EmptyCells(_)
EmptyCells(n) == IF n <= 0 THEN <<>> ELSE <<<<>>>> \o EmptyCells(n - 1)

\* what the inner loop adds to row for one table at row index r (0-based):
\* the table's row or the padding, then the gap cell
TableCells(table, r) ==
    (IF r < Len(table) THEN table[r + 1] ELSE EmptyCells(Len(table[1])))
    \o <<<<>>>>

RECURSIVE ExtendRow(_, _, _)
ExtendRow(row, tabs, r) ==
    IF tabs = <<>> THEN row
    ELSE ExtendRow(row \o TableCells(Head(tabs), r), Tail(tabs), r)

\* row[:-1]
DropLast(row) == IF row = <<>> THEN <<>> ELSE SubSeq(row, 1, Len(row) - 1)

\* the row with its trailing gap cell kept
ConsolidatedRow_KeepGap(tabs, r) == ExtendRow(<<>>, tabs, r)

\* one iteration of the loop over range(max_rows): the row it appends
ConsolidatedRow(tabs, r) == DropLast(ExtendRow(<<>>, tabs, r))

\* the padding of an exhausted table reads table[0]
RowRaises(tabs, r) == \E t \in 1..Len(tabs) : r >= Len(tabs[t]) /\ tabs[t] = <<>>

RECURSIVE MaxRows(_)
MaxRows(tabs) == IF tabs = <<>> THEN 0 ELSE Max(Len(Head(tabs)), MaxRows(Tail(tabs)))

\* the whole function: [raised, value]
consolidate_csvs(bufs) ==
    LET tabs == [k \in 1..Len(bufs) |-> CsvRead(bufs[k].value)]
        n == MaxRows(tabs)
    IN  IF \E r \in 0..(n - 1) : RowRaises(tabs, r)
        THEN [raised |-> TRUE, value |-> StringIO(<<>>)]
        ELSE [raised |-> FALSE,
              value |-> StringIO(CsvWriteRows(
                            [r \in 1..n |-> ConsolidatedRow(tabs, r - 1)]))]

\* ------------------------------------------------------------------ main
\* a downloaded PDF and the text extract_text_from_pdf reads from it
Pdf(text) == [kind |-> "pdf", text |-> text]

extract_text_from_pdf(pdf_content) == pdf_content.text

\* download_pdf returns None unless the status is 200
NoPdf == [kind |-> "None", text |-> <<>>]

MainTexts ==
    { <<>>,
      Join(<< SH("1") \o <<" ", "100", " ", "ORDINARY", " ", "shares">>,
              <<"Name", ":", " ", "jane">> >>, <<"\n">>),
      <<"Shareholding", " ", "3">> }

Downloads == {NoPdf} \cup {Pdf(t) : t \in MainTexts}

\* f"{legal_name}_statement_{idx + 1}.<ext>"
FileName(name, n, ext) == name \o <<"_statement_", ToString(n), ext>>

InitSessionState ==
    [pdf_files |-> <<>>, text_files |-> <<>>, csv_files |-> <<>>,
     consolidated_csv |-> <<>>]

\* ----------------------------------------------------------------- state
VARIABLES
    pc,                  \* where the modelled function is
    error,               \* the exception that ended it, "" if none
    text_content, legal_name, company_number,
    lines, i, csv_data, statement_date, shareholder_data,
    result,              \* what process_text_to_csv returned
    csv_buffers, tables, max_rows, consolidated_rows, consolidated_buffer,
    session_state, downloads, idx

pvars == <<text_content, lines, csv_data, statement_date, shareholder_data, result>>

cvars == <<tables, max_rows, consolidated_rows, consolidated_buffer>>

mvars == <<session_state, downloads, idx>>

vars == <<pc, error, legal_name, company_number, i, csv_buffers,
          pvars, cvars, mvars>>

IdleP ==
    /\ text_content = <<>>
    /\ lines = <<>>
    /\ csv_data = <<>>
    /\ statement_date = <<>>
    /\ shareholder_data = <<>>
    /\ result = Tuple(<<>>)

IdleC ==
    /\ tables = <<>>
    /\ max_rows = 0
    /\ consolidated_rows = <<>>
    /\ consolidated_buffer = StringIO(<<>>)

IdleM ==
    /\ session_state = InitSessionState
    /\ downloads = <<>>
    /\ idx = 0

\* ------------------------------------- Spec: one call process_text_to_csv
Init ==
    /\ pc = "lines"
    /\ error = ""
    /\ text_content \in Texts
    /\ legal_name \in LegalNames
    /\ company_number \in CompanyNumbers
    /\ lines = SplitOn(text_content, "\n")
    /\ i = 1
    /\ csv_data = InitCsvData(legal_name, company_number)
    /\ statement_date = <<>>
    /\ shareholder_data = <<>>
    /\ result = Tuple(<<>>)
    /\ csv_buffers = <<>>
    /\ IdleC
    /\ IdleM

Locals ==
    [csv_data |-> csv_data, statement_date |-> statement_date,
     shareholder_data |-> shareholder_data, raised |-> FALSE]

\* one iteration of the loop over the lines
ProcessLine ==
    /\ pc = "lines"
    /\ i <= Len(lines)
    /\ LET loc == LineBody(Locals, lines, i)
       IN  /\ csv_data' = loc.csv_data
           /\ statement_date' = loc.statement_date
           /\ shareholder_data' = loc.shareholder_data
           /\ pc' = IF loc.raised THEN "raised" ELSE "lines"
           /\ error' = IF loc.raised THEN "IndexError" ELSE ""
           /\ i' = IF loc.raised THEN i ELSE i + 1
    /\ UNCHANGED <<text_content, lines, result, legal_name, company_number,
                   csv_buffers, cvars, mvars>>

\* the loop that moves shareholder_data into csv_data
AppendShareholderData ==
    /\ pc = "lines"
    /\ i > Len(lines)
    /\ csv_data' = AppendRows(csv_data, shareholder_data, 0).csv_data
    /\ pc' = "write"
    /\ UNCHANGED <<error, text_content, lines, statement_date, shareholder_data,
                   result, legal_name, company_number, i, csv_buffers,
                   cvars, mvars>>

\* writer.writerows(csv_data) and the return
CreateCsvBuffer ==
    /\ pc = "write"
    /\ result' = ReturnValue(Locals)
    /\ pc' = "done"
    /\ UNCHANGED <<error, text_content, lines, csv_data, statement_date,
                   shareholder_data, legal_name, company_number, i, csv_buffers,
                   cvars, mvars>>

Next == ProcessLine \/ AppendShareholderData \/ CreateCsvBuffer

Spec == Init /\ [][Next]_vars

\* ------------------------------ SpecConsolidate: one call consolidate_csvs
ConsolidateTexts ==
    { <<>>,
      Join(<< SH("1") \o <<" ", "100", " ", "ORDINARY", " ", "shares">>,
              <<"Name", ":", " ", "jane">> >>, <<"\n">>),
      Join(<< SH("1") \o <<" ", "100", " ", "ORDINARY", " ", "shares">>,
              SH("2") \o <<" ", "250", " ", "ordinary">>,
              <<"Name", ":", " ", "smith", ",", " ", "\"", "jo", "\"">> >>,
           <<"\n">>),
      Join(<< <<"Confirmation Statement date", ":", " ", "01/01/2020">>,
              SH("5") \o <<" ", "many", " ", "ordinary", " ", "shares">> >>,
           <<"\n">>) }

\* the buffers main can hand over: those process_text_to_csv builds
ProcessBuffers ==
    { process_text_to_csv(t, <<"Smith", ",", " ", "Sons">>, <<"00123">>).value.items[1] :
        t \in ConsolidateTexts }

InitConsolidate ==
    /\ pc = "consolidate"
    /\ error = ""
    /\ csv_buffers \in SeqsUpTo(ProcessBuffers, MaxTables)
    /\ i = 0
    /\ legal_name = <<>>
    /\ company_number = <<>>
    /\ IdleC
    /\ IdleP
    /\ IdleM

\* one iteration of the loop over csv_buffers
ReadBuffer ==
    /\ pc = "consolidate"
    /\ Len(tables) < Len(csv_buffers)
    /\ LET rows == CsvRead(csv_buffers[Len(tables) + 1].value)
       IN  /\ tables' = Append(tables, rows)
           /\ max_rows' = Max(max_rows, Len(rows))
    /\ UNCHANGED <<pc, error, legal_name, company_number, i, csv_buffers,
                   consolidated_rows, consolidated_buffer, pvars, mvars>>

\* one iteration of the loop over range(max_rows)
AppendConsolidatedRow ==
    /\ pc = "consolidate"
    /\ Len(tables) = Len(csv_buffers)
    /\ i < max_rows
    /\ IF RowRaises(tables, i)
       THEN /\ pc' = "raised"
            /\ error' = "IndexError"
            /\ UNCHANGED <<i, consolidated_rows>>
       ELSE /\ consolidated_rows' =
                   Append(consolidated_rows, ConsolidatedRow(tables, i))
            /\ i' = i + 1
            /\ UNCHANGED <<pc, error>>
    /\ UNCHANGED <<legal_name, company_number, csv_buffers, tables, max_rows,
                   consolidated_buffer, pvars, mvars>>

\* writer.writerows(consolidated_rows) and the return
WriteConsolidated ==
    /\ pc = "consolidate"
    /\ Len(tables) = Len(csv_buffers)
    /\ i = max_rows
    /\ consolidated_buffer' = StringIO(CsvWriteRows(consolidated_rows))
    /\ pc' = "done"
    /\ UNCHANGED <<error, legal_name, company_number, i, csv_buffers, tables,
                   max_rows, consolidated_rows, pvars, mvars>>

NextConsolidate == ReadBuffer \/ AppendConsolidatedRow \/ WriteConsolidated

SpecConsolidate == InitConsolidate /\ [][NextConsolidate]_vars

\* ------------------------------------- SpecMain: one Process run of main
\* what the user typed, what the company search returned (<<>> is None) and
\* what each of the transaction ids downloads
InitMain ==
    /\ pc = "idle"
    /\ error = ""
    /\ legal_name \in {<<" ">>, <<"ACME">>}
    /\ company_number \in {<<>>, <<"00123">>}
    /\ downloads \in SeqsUpTo(Downloads, MaxFilings)
    /\ session_state = InitSessionState
    /\ idx = 0
    /\ i = 0
    /\ csv_buffers = <<>>
    /\ IdleP
    /\ IdleC

\* the Process button up to the loop: the three early returns, the reset
ClickProcess ==
    /\ pc = "idle"
    /\ IF Strip(legal_name) = <<>> \/ company_number = <<>> \/ downloads = <<>>
       THEN /\ pc' = "returned"
            /\ UNCHANGED <<session_state, csv_buffers>>
       ELSE /\ pc' = "filings"
            /\ session_state' = [session_state EXCEPT !.pdf_files = <<>>,
                                                      !.text_files = <<>>,
                                                      !.csv_files = <<>>]
            /\ csv_buffers' = <<>>
    /\ UNCHANGED <<error, legal_name, company_number, i, downloads, idx,
                   pvars, cvars>>

\* one iteration of the loop over transaction_ids
ProcessFiling ==
    /\ pc = "filings"
    /\ idx < Len(downloads)
    /\ LET pdf_content == downloads[idx + 1]
           text == extract_text_from_pdf(pdf_content)
           withPdf == [session_state EXCEPT
                         !.pdf_files = Append(@, <<FileName(legal_name, idx + 1, ".pdf"),
                                                   pdf_content>>),
                         !.text_files = Append(@, <<FileName(legal_name, idx + 1, ".txt"),
                                                    text>>)]
           r == process_text_to_csv(text, legal_name, company_number)
           csv_buffer == r.value
       IN  IF pdf_content.kind = "None"
           THEN /\ idx' = idx + 1
                /\ UNCHANGED <<pc, error, session_state, csv_buffers>>
           ELSE IF r.raised
           THEN /\ session_state' = withPdf
                /\ pc' = "raised"
                /\ error' = "IndexError"
                /\ UNCHANGED <<idx, csv_buffers>>
           ELSE IF csv_buffer.kind # "StringIO"
           THEN \* csv_buffer.getvalue() on a value that has no getvalue
                /\ session_state' = withPdf
                /\ pc' = "raised"
                /\ error' = "AttributeError"
                /\ UNCHANGED <<idx, csv_buffers>>
           ELSE /\ session_state' =
                     [withPdf EXCEPT
                        !.csv_files = Append(@, <<FileName(legal_name, idx + 1, ".csv"),
                                                  csv_buffer.value>>)]
                /\ csv_buffers' = Append(csv_buffers, csv_buffer)
                /\ idx' = idx + 1
                /\ UNCHANGED <<pc, error>>
    /\ UNCHANGED <<legal_name, company_number, i, downloads, pvars, cvars>>

\* consolidate_csvs(csv_buffers).getvalue() after the loop
Consolidate ==
    /\ pc = "filings"
    /\ idx = Len(downloads)
    /\ LET r == consolidate_csvs(csv_buffers)
       IN  IF r.raised
           THEN /\ pc' = "raised"
                /\ error' = "IndexError"
                /\ UNCHANGED session_state
           ELSE /\ pc' = "done"
                /\ session_state' =
                     [session_state EXCEPT !.consolidated_csv = r.value.value]
                /\ UNCHANGED error
    /\ UNCHANGED <<legal_name, company_number, i, csv_buffers, downloads, idx,
                   pvars, cvars>>

NextMain == ClickProcess \/ ProcessFiling \/ Consolidate

SpecMain == InitMain /\ [][NextMain]_vars

\* ============================================================ properties
IsShareholdingLine(l) == StartsWith(Strip(l), <<"Shareholding">>)

IsNameLine(l) == StartsWith(Strip(l), <<"Name", ":">>)

IsDateLine(l) ==
    \/ StartsWith(Strip(l), <<"Statement date", ":">>)
    \/ StartsWith(Strip(l), <<"Confirmation Statement date", ":">>)

\* the indices of the lines that open a block, in order
RECURSIVE BlockStarts(_, _)
BlockStarts(ls, k) ==
    IF k > Len(ls) THEN <<>>
    ELSE (IF IsShareholdingLine(ls[k]) THEN <<k>> ELSE <<>>) \o BlockStarts(ls, k + 1)

\* the text after the first colon of a line, trimmed
AfterFirstColon(l) == Strip(Join(Tail(SplitOn(Strip(l), ":")), <<":">>))

\* the table read back from the buffer process_text_to_csv returned
ReturnedTable == CsvRead(result.items[1].value)

ReturnedDate == result.items[2]

\* the last line of the block that line a opens
RECURSIVE BlockEnd(_, _)
BlockEnd(ls, a) ==
    IF a < Len(ls) /\ ~IsShareholdingLine(ls[a + 1]) /\ ~IsNameLine(ls[a + 1])
    THEN BlockEnd(ls, a + 1)
    ELSE a

\* the lines a..e of a block written on a single line
MergedLine(ls, a, e) == Join([m \in 1..(e - a + 1) |-> Strip(ls[a + m - 1])], <<" ">>)

Digits == {"1", "2", "3", "4", "5", "100", "250"}

\* a run of digits followed later by the word "shares"
HasDigitsThenShares(s) ==
    \E a \in 1..Len(s) : \E b \in (a + 1)..Len(s) :
        s[a] \in Digits /\ LowerAtom(s[b]) = "shares"

\* C1: process_text_to_csv never raises, and once the lines are read there is
\* exactly one record per line that starts with "Shareholding", in line order.
C1_OneRecordPerBlockNoRaise ==
    /\ pc # "raised"
    /\ pc \in {"write", "done"} =>
         /\ Len(shareholder_data) = Len(BlockStarts(lines, 1))
         /\ \A k \in 1..Len(shareholder_data) :
              shareholder_data[k][1] =
                LET w == SplitWs(SplitOn(Strip(lines[BlockStarts(lines, 1)[k]]), ":")[1])
                IN  w[Len(w)]

\* C2: a block that is followed by another "Shareholding" line before any
\* "Name:" line has holder name "PENDING".
C2_PendingBeforeNextBlock ==
    pc = "done" =>
      \A k \in 1..Len(shareholder_data) :
        LET starts == BlockStarts(lines, 1)
            a == starts[k]
        IN  (k < Len(starts)
             /\ \A m \in (a + 1)..(starts[k + 1] - 1) : ~IsNameLine(lines[m]))
            => shareholder_data[k][4] = <<"PENDING">>

\* C3: a block wrapped over continuation lines gives the shareholding number,
\* share count and share class of the same block written on one line.
C3_WrappedBlockAsSingleLine ==
    pc = "done" =>
      \A k \in 1..Len(shareholder_data) :
        LET a == BlockStarts(lines, 1)[k]
            single == ShareholdingRow(<<MergedLine(lines, a, BlockEnd(lines, a))>>, 1)
        IN  /\ ~single.raised
            /\ \A f \in 1..3 : shareholder_data[k][f] = single.row[f]

\* C4: the statement date returned and written into the Statement Date cell
\* is the text after the first colon of the first date line, "" if there is
\* no date line.
C4_FirstStatementDate ==
    pc = "done" =>
      LET expected ==
            IF \E k \in 1..Len(lines) : IsDateLine(lines[k])
            THEN AfterFirstColon(lines[CHOOSE k \in 1..Len(lines) :
                     IsDateLine(lines[k])
                     /\ \A m \in 1..(k - 1) : ~IsDateLine(lines[m])])
            ELSE <<>>
      IN  /\ ReturnedDate = expected
          /\ ReturnedTable[6] = <<expected>>

\* C5: consolidate_csvs outputs max(row counts) rows, and a table that has no
\* row at an index contributes as many empty cells as its header row is wide.
C5_PaddingOfHeaderWidth ==
    pc = "done" =>
      /\ Len(consolidated_rows) = MaxRows(tables)
      /\ \A r \in 1..Len(consolidated_rows) :
           consolidated_rows[r] =
             Join([t \in 1..Len(tables) |->
                     IF r <= Len(tables[t]) THEN tables[t][r]
                     ELSE EmptyCells(Len(tables[t][8]))],
                  <<<<>>>>)

\* C6: consolidating a single table of process_text_to_csv returns that
\* table, row for row and cell for cell, with no gap cell and no padding.
C6_SingleTableRoundTrip ==
    (pc = "done" /\ Len(csv_buffers) = 1) =>
      /\ consolidated_buffer.value = csv_buffers[1].value
      /\ CsvRead(consolidated_buffer.value) = CsvRead(csv_buffers[1].value)
      /\ consolidated_rows = tables[1]

C6_Witness ==
    /\ pc = "done"
    /\ Len(csv_buffers) = 1
    /\ Len(consolidated_rows) = 10
    /\ consolidated_rows[7] = <<>>
    /\ consolidated_rows[10][5] = <<"smith", ",", " ", "\"", "jo", "\"">>

\* C7: the table process_text_to_csv returns has 8 rows plus one per parsed
\* record; rows 1..8 are the metadata, separator and header rows whatever the
\* input, and the k-th record is the k-th row after the header.
C7_FixedRowsPlusRecords ==
    pc = "done" =>
      LET table == ReturnedTable
      IN  /\ Len(table) = 8 + Len(shareholder_data)
          /\ Len(shareholder_data) = Len(BlockStarts(lines, 1))
          /\ table[8] = HeaderRow
          /\ \A r \in {1, 2, 3, 4, 5, 7} :
               table[r] = InitCsvData(legal_name, company_number)[r]
          /\ Len(table[6]) = 1
          /\ \A k \in 1..Len(shareholder_data) :
               table[8 + k] = <<<<>>>> \o shareholder_data[k]

C7_Witness ==
    /\ pc = "done"
    /\ Len(shareholder_data) >= 2
    /\ Len(csv_data) = 8 + Len(shareholder_data)

\* C8: a "Shareholding N:" line without a run of digits followed later by
\* "shares" after the colon gives share count "Unknown" and share class
\* "Unknown".
C8_UnknownCountAndClass ==
    pc = "done" =>
      \A k \in 1..Len(shareholder_data) :
        ~HasDigitsThenShares(AfterFirstColon(lines[BlockStarts(lines, 1)[k]]))
          => /\ shareholder_data[k][2] = <<"Unknown">>
             /\ shareholder_data[k][3] = <<"Unknown">>

\* the widest row of a table, and the column where table t starts when every
\* table keeps its column range and one gap column separates neighbours
RECURSIVE TableWidth(_)
TableWidth(table) ==
    IF table = <<>> THEN 0 ELSE Max(Len(Head(table)), TableWidth(Tail(table)))

RECURSIVE StartColumn(_, _)
StartColumn(tabs, t) ==
    IF t = 1 THEN 1 ELSE StartColumn(tabs, t - 1) + TableWidth(tabs[t - 1]) + 1

\* C9: with two or more tables, the cells of table t start at the same column
\* in every output row, one empty gap column before each table but the first.
C9_TablesKeepTheirColumns ==
    (pc = "done" /\ Len(tables) >= 2) =>
      \A r \in 1..Len(consolidated_rows) : \A t \in 1..Len(tables) :
        LET out == consolidated_rows[r]
            start == StartColumn(tables, t)
        IN  /\ t > 1 => (Len(out) >= start - 1 => out[start - 1] = <<>>)
            /\ r <= Len(tables[t]) =>
                 \A c \in 1..Len(tables[t][r]) :
                   /\ Len(out) >= start + c - 1
                   /\ out[start + c - 1] = tables[t][r][c]

\* the downloads among the first n that succeeded
RECURSIVE Succeeded(_, _)
Succeeded(ds, n) ==
    IF n = 0 THEN 0
    ELSE Succeeded(ds, n - 1) + (IF ds[n].kind = "pdf" THEN 1 ELSE 0)

\* C10: in a Process run no step of the loop fails on the type of the value
\* process_text_to_csv returned, every successful download adds one entry to
\* pdf_files, text_files, csv_files and csv_buffers, and consolidated_csv is
\* computed from those buffers.
C10_OneEntryPerDownload ==
    /\ error # "AttributeError"
    /\ pc \in {"filings", "done"} =>
         /\ Len(session_state.pdf_files) = Succeeded(downloads, idx)
         /\ Len(session_state.text_files) = Succeeded(downloads, idx)
         /\ Len(session_state.csv_files) = Succeeded(downloads, idx)
         /\ Len(csv_buffers) = Succeeded(downloads, idx)
    /\ pc = "done" =>
         session_state.consolidated_csv = consolidate_csvs(csv_buffers).value.value
====
